---- MODULE Spec2Model ----
(***************************************************************************)
(* Model of encode_framework/encode/idx/dgindexnv.py: the DGIndexNV index  *)
(* file patcher (update_video_filenames), the index parser (get_info) and  *)
(* the indexing cache (DGIndexNVAddFilenames.index).                       *)
(*                                                                         *)
(* Text is modelled by what the code does with it.  A string is the        *)
(* sequence of its space-separated tokens (str.split(' ') / ' '.join), so  *)
(* a path that contains a space is a string of two tokens.  A file is the  *)
(* sequence of its lines as str.split('\n') gives them; the empty file is  *)
(* the single blank line.  Numbers inside the file are tokens and go       *)
(* through int(), which fails on a token that is no numeral.               *)
(***************************************************************************)
EXTENDS Integers, Sequences, FiniteSets, TLC

VARIABLES
    fs,       \* the index files on disk: output path -> content (list of lines)
    built,    \* per index file: how many source files the tool built it from
    cache,    \* the lru_cache of get_info: its entries, least recently used first
    result,   \* what the last call did and returned
    tick,     \* parity of the number of direct update_video_filenames calls
    seen,     \* the first model get_info returned to an observer, with its key
    src_file  \* ScriptInfo.src_file: the list the script's index() works on

vars == <<fs, built, cache, result, tick, seen, src_file>>

-----------------------------------------------------------------------------
(* Bounds of the model.                                                    *)

MaxRows == 2        \* file-list rows of a generated index file
MaxSize == 1        \* largest declared size of a file-list row
MaxFrameLines == 3  \* lines of a generated frame-data block
MaxInput == 2       \* length of the file list handed to index()
MaxIndexFiles == 2  \* index files on disk at one time
MaxCached == 1      \* entries the cache of get_info holds (lru_cache keeps 128)

-----------------------------------------------------------------------------
(* Strings, tokens and numerals.                                           *)

Blank == <<>>

NumTok == <<"0", "1", "2", "3", "4", "5", "6", "7", "8", "9">>

IsInt(t) == \E n \in 1..Len(NumTok) : NumTok[n] = t

\* int(t) for a numeral token
IntTok(t) == (CHOOSE n \in 1..Len(NumTok) : NumTok[n] = t) - 1

\* the numeral of a small natural number (str(n))
TokInt(n) == NumTok[n + 1]

\* int(s) succeeds iff the string s is a single numeral token
IsIntStr(s) == Len(s) = 1 /\ IsInt(s[1])

\* str.split(' '): the tokens of a string; ''.split(' ') is ['']
Split(line) == IF line = Blank THEN <<"">> ELSE line

\* seq[a..b] with Python's clipping of an empty range
Slice(seq, a, b) == IF a > b THEN <<>> ELSE SubSeq(seq, a, b)

Last(seq) == seq[Len(seq)]

Min(a, b) == IF a < b THEN a ELSE b

Max(a, b) == IF a < b THEN b ELSE a

Front(seq) == Slice(seq, 1, Len(seq) - 1)

RECURSIVE SumSeq(_)
SumSeq(seq) == IF seq = <<>> THEN 0 ELSE Head(seq) + SumSeq(Tail(seq))

\* list.index(x, start): the first position >= from holding x, 0 when there is
\* none (the code raises ValueError then); positions are 1-based here
IndexOf(seq, x, from) ==
    IF \E i \in from..Len(seq) : seq[i] = x
    THEN CHOOSE i \in from..Len(seq) :
            /\ seq[i] = x
            /\ \A j \in from..(i - 1) : seq[j] # x
    ELSE 0

\* 'DGIndexNV' in line: the signature occurs in the line
HasSignature(line) == \E i \in 1..Len(line) : line[i] = "DGIndexNV"

-----------------------------------------------------------------------------
(* File contents.                                                          *)

NoFile == "absent"

EmptyFile == <<Blank>>

\* SPath.read_lines(): str.splitlines() drops the empty piece after a final
\* newline, and reads the empty file as no line at all
ReadLines(content) ==
    IF Last(content) = Blank THEN Front(content) ELSE content

\* SPath.write_lines(lines): '\n'.join(lines)
WriteLines(lines) == IF lines = <<>> THEN EmptyFile ELSE lines

\* file.read().split('\n')
SplitNL(content) == content

\* ExternalIndexer._split_lines(buff): (buff[:i], buff[i+1:]) at the first
\* blank line i; buff.index('') raises ValueError when there is none
HasBlank(buff) == IndexOf(buff, Blank, 1) # 0

SplitHead(buff) == Slice(buff, 1, IndexOf(buff, Blank, 1) - 1)

SplitRest(buff) == Slice(buff, IndexOf(buff, Blank, 1) + 1, Len(buff))

-----------------------------------------------------------------------------
(* Source files.  An SPath is a record of its folder, stem, suffix and the *)
(* tokens of str(path); the table is listed in the order sorted() gives.   *)

FileTab == <<
    [folder |-> "/a", stem |-> "my y", ext |-> "mkv", str |-> <<"/a/my", "y.mkv">>,
     exists |-> TRUE],
    [folder |-> "/a", stem |-> "x", ext |-> "mkv", str |-> <<"/a/x.mkv">>,
     exists |-> TRUE],
    [folder |-> "/b", stem |-> "z", ext |-> "mkv", str |-> <<"/b/z.mkv">>,
     exists |-> TRUE],
    [folder |-> "/b", stem |-> "zz", ext |-> "mkv", str |-> <<"/b/zz.mkv">>,
     exists |-> FALSE] >>

\* the source files that exist
Files == {FileTab[i] : i \in {k \in DOMAIN FileTab : FileTab[k].exists}}

\* the paths a caller can name: the last one is of a file that is not there
Paths == {FileTab[i] : i \in DOMAIN FileTab}

\* str(path)
PathStr(path) == path.str

\* a source file with the stem of FileTab[2] and another suffix
TwinTab == <<
    [folder |-> "/a", stem |-> "x", ext |-> "mp4", str |-> <<"/a/x.mp4">>,
     exists |-> TRUE] >>

\* all paths in the order sorted() gives them
PathOrder == <<FileTab[1], FileTab[2], TwinTab[1], FileTab[3], FileTab[4]>>

\* path < path', the order of sorted() on paths
Rank(path) == CHOOSE i \in DOMAIN PathOrder : PathOrder[i] = path

PathLess(p, q) == Rank(p) < Rank(q)

-----------------------------------------------------------------------------
(* Exceptions.  A call ends with exc = NoExc or with the exception raised. *)

NoExc == "none"

IndexError == "IndexError"

ValueError == "ValueError"

\* ExternalIndexer.file_corrupted(index_path): raises the corruption error
FileCorrupted == "CorruptedIndexError"

-----------------------------------------------------------------------------
(* DGIndexNV.update_video_filenames                                        *)

\* str_filepaths = list(map(str, filepaths))
StrFilepaths(filepaths) == [i \in 1..Len(filepaths) |-> PathStr(filepaths[i])]

\* start_videos = lines.index('') + 1 (0-based), 0 standing for ValueError
StartVideos(lines) == IndexOf(lines, Blank, 1)

\* end_videos = lines.index('', start_videos) (0-based), -1 for ValueError
EndVideos(lines) == IndexOf(lines, Blank, StartVideos(lines) + 1) - 1

\* mutant: the row-count check of line 98 left out
RowCountOk_Always(lines, str_filepaths) == TRUE

\* the check of line 98: the block has as many rows as there are filepaths
RowCountOk(lines, str_filepaths) ==
    EndVideos(lines) - StartVideos(lines) = Len(str_filepaths)

\* split_lines = [line.split(' ') for line in lines[start_videos:end_videos]]
SplitLines(lines) ==
    [i \in 1..(EndVideos(lines) - StartVideos(lines)) |->
        Split(lines[StartVideos(lines) + i])]

\* current_paths = [line[:-1][0] for line in split_lines]; line[:-1][0]
\* raises IndexError on a row of one token
CurrentPathsOk(split_lines) ==
    \A i \in 1..Len(split_lines) : Len(split_lines[i]) >= 2

CurrentPaths(split_lines) ==
    [i \in 1..Len(split_lines) |-> <<split_lines[i][1]>>]

\* mutant: line[1:] for line[-1:], every token after the first kept
VideoArgs_Tail(split_lines) ==
    [i \in 1..Len(split_lines) |-> Tail(split_lines[i])]

\* video_args = [line[-1:] for line in split_lines]
VideoArgs(split_lines) ==
    [i \in 1..Len(split_lines) |-> <<Last(split_lines[i])>>]

\* [' '.join([path, *args]) for path, args in zip(str_filepaths, video_args)]
NewRows(str_filepaths, video_args) ==
    [i \in 1..Min(Len(str_filepaths), Len(video_args)) |->
        str_filepaths[i] \o video_args[i]]

\* lines[start_videos:end_videos] = rows
Patched(lines, rows) ==
    Slice(lines, 1, StartVideos(lines)) \o rows
        \o Slice(lines, EndVideos(lines) + 1, Len(lines))

UpdateRaise(content, e) == [exc |-> e, wrote |-> FALSE, content |-> content]

\* update_video_filenames(index_path, filepaths) on a file of this content:
\* the exception it ends with, whether write_lines ran, the content it leaves
UpdateVideoFilenames(content, filepaths) ==
    LET lines == ReadLines(content)
        str_filepaths == StrFilepaths(filepaths)
    IN  IF lines = <<>> THEN UpdateRaise(content, IndexError)
        ELSE IF ~HasSignature(lines[1]) THEN UpdateRaise(content, FileCorrupted)
        ELSE IF StartVideos(lines) = 0 \/ EndVideos(lines) = -1
             THEN UpdateRaise(content, ValueError)
        ELSE IF ~RowCountOk(lines, str_filepaths)
             THEN UpdateRaise(content, FileCorrupted)
        ELSE LET split_lines == SplitLines(lines)
             IN  IF ~CurrentPathsOk(split_lines)
                 THEN UpdateRaise(content, IndexError)
                 ELSE IF CurrentPaths(split_lines) = str_filepaths
                 THEN [exc |-> NoExc, wrote |-> FALSE, content |-> content]
                 ELSE [exc |-> NoExc, wrote |-> TRUE,
                       content |-> WriteLines(Patched(lines,
                           NewRows(str_filepaths, VideoArgs(split_lines))))]

-----------------------------------------------------------------------------
(* DGIndexNV.get_info: the header block                                    *)

TypeError == "TypeError"

\* the value None of an optional integer: no numeral parses to it
None == -1

\* DGIndexHeader(): the defaults of the dataclass; exc and warnings record
\* how the parse of the block ended and what it printed
DGIndexHeader ==
    [device |-> 0, decode_modes |-> <<0, 0, 0, 0, 0>>, stream |-> <<1, 0>>,
     ranges |-> <<0, 0, 0, 0>>, depth |-> 8, aspect |-> <<16, 9>>,
     colorimetry |-> <<2, 2, 2>>, packet_size |-> None, vpid |-> None,
     exc |-> NoExc, warnings |-> 0]

\* str.upper() on the key tokens that occur
Upper(t) ==
    CASE t = "depth" -> "DEPTH"
      [] t = "aspect" -> "ASPECT"
      [] OTHER -> t

\* values[0].split(',')
CommaSplit(t) ==
    CASE t = "0,0,0,0,0" -> <<"0", "0", "0", "0", "0">>
      [] t = "1,2" -> <<"1", "2">>
      [] OTHER -> <<t>>

\* the exception of int(values[0])
Int1Exc(values) ==
    IF values = <<>> THEN IndexError
    ELSE IF ~IsInt(values[1]) THEN ValueError ELSE NoExc

\* the exception of map(int, values)
IntsExc(values) ==
    IF \A i \in 1..Len(values) : IsInt(values[i]) THEN NoExc ELSE ValueError

Ints(values) == [i \in 1..Len(values) |-> IntTok(values[i])]

RECURSIVE Gcd(_, _)
Gcd(a, b) == IF b = 0 THEN a ELSE Gcd(b, a % b)

\* Fraction(a, b) in lowest terms, b # 0
Fraction(a, b) == <<a \div Gcd(a, b), b \div Gcd(a, b)>>

\* mutant: the warning is printed whatever the environment
Aspect_AlwaysWarns(h, values, debug) ==
    IF IntsExc(values) # NoExc THEN [h EXCEPT !.exc = ValueError]
    ELSE LET v == Ints(values)
         IN  CASE Len(v) = 0 -> [h EXCEPT !.aspect = <<0, 1>>]
               [] Len(v) = 1 -> [h EXCEPT !.aspect = <<v[1], 1>>]
               [] Len(v) = 2 /\ v[2] # 0 ->
                    [h EXCEPT !.aspect = Fraction(v[1], v[2])]
               [] Len(v) = 2 /\ v[2] = 0 ->
                    [h EXCEPT !.aspect = <<1, 1>>, !.warnings = @ + 1]
               [] OTHER -> [h EXCEPT !.exc = TypeError]

\* lines 154-160: header.aspect = Fraction(*map(int, values)), 1/1 on
\* ZeroDivisionError, with a printed warning when VSSOURCE_DEBUG is set
Aspect(h, values, debug) ==
    IF IntsExc(values) # NoExc THEN [h EXCEPT !.exc = ValueError]
    ELSE LET v == Ints(values)
         IN  CASE Len(v) = 0 -> [h EXCEPT !.aspect = <<0, 1>>]
               [] Len(v) = 1 -> [h EXCEPT !.aspect = <<v[1], 1>>]
               [] Len(v) = 2 /\ v[2] # 0 ->
                    [h EXCEPT !.aspect = Fraction(v[1], v[2])]
               [] Len(v) = 2 /\ v[2] = 0 ->
                    [h EXCEPT !.aspect = <<1, 1>>,
                              !.warnings = @ + (IF debug THEN 1 ELSE 0)]
               [] OTHER -> [h EXCEPT !.exc = TypeError]

\* one pass of the loop of lines 135-166
HeaderLine(h, rlin, debug) ==
    LET split_val == Split(rlin)
        key == Upper(split_val[1])
        values == Tail(split_val)
        one == Int1Exc(values)
        all == IntsExc(values)
    IN  CASE key = "DEVICE" ->
                IF one # NoExc THEN [h EXCEPT !.exc = one]
                ELSE [h EXCEPT !.device = IntTok(values[1])]
          [] key = "DECODE_MODES" ->
                IF values = <<>> THEN [h EXCEPT !.exc = IndexError]
                ELSE IF IntsExc(CommaSplit(values[1])) # NoExc
                     THEN [h EXCEPT !.exc = ValueError]
                ELSE [h EXCEPT !.decode_modes = Ints(CommaSplit(values[1]))]
          [] key = "STREAM" ->
                IF all # NoExc THEN [h EXCEPT !.exc = all]
                ELSE [h EXCEPT !.stream = Ints(values)]
          [] key = "RANGE" ->
                IF all # NoExc THEN [h EXCEPT !.exc = all]
                ELSE [h EXCEPT !.ranges = Ints(values)]
          [] key = "DEMUX" -> h
          [] key = "DEPTH" ->
                IF one # NoExc THEN [h EXCEPT !.exc = one]
                ELSE [h EXCEPT !.depth = IntTok(values[1])]
          [] key = "ASPECT" -> Aspect(h, values, debug)
          [] key = "COLORIMETRY" ->
                IF all # NoExc THEN [h EXCEPT !.exc = all]
                ELSE [h EXCEPT !.colorimetry = Ints(values)]
          [] key = "PKTSIZ" ->
                IF one # NoExc THEN [h EXCEPT !.exc = one]
                ELSE [h EXCEPT !.packet_size = IntTok(values[1])]
          [] key = "VPID" ->
                IF one # NoExc THEN [h EXCEPT !.exc = one]
                ELSE [h EXCEPT !.vpid = IntTok(values[1])]
          [] OTHER -> h

RECURSIVE ParseHeader(_, _, _)
ParseHeader(h, raw_header, debug) ==
    IF raw_header = <<>> \/ h.exc # NoExc THEN h
    ELSE ParseHeader(HeaderLine(h, Head(raw_header), debug),
                     Tail(raw_header), debug)

-----------------------------------------------------------------------------
(* DGIndexNV.get_info: the sector window and the frame-data scan           *)

\* seq[:k] of Python, k possibly negative
Prefix(seq, k) ==
    IF k >= 0 THEN Slice(seq, 1, Min(k, Len(seq)))
    ELSE Slice(seq, 1, Len(seq) + k)

\* seq[k] of Python is defined (no IndexError), k possibly negative
InRange(seq, k) == -Len(seq) <= k /\ k < Len(seq)

\* seq[k] of Python, k possibly negative
At(seq, k) == IF k >= 0 THEN seq[k + 1] ELSE seq[Len(seq) + k + 1]

\* int(line.split(' ')[-1]) succeeds on every file-list row
VideoSizesOk(vid_lines) ==
    \A i \in 1..Len(vid_lines) : IsInt(Last(Split(vid_lines[i])))

\* video_sizes = [int(line[-1]) for line in ...]
VideoSizes(vid_lines) ==
    [i \in 1..Len(vid_lines) |-> IntTok(Last(Split(vid_lines[i])))]

\* max_sector = sum([0, *video_sizes[:file_idx + 1]])
MaxSector(video_sizes, file_idx) == SumSeq(Prefix(video_sizes, file_idx + 1))

\* idx_file_sector = [max_sector - video_sizes[file_idx], max_sector]
IdxFileSector(video_sizes, file_idx) ==
    <<MaxSector(video_sizes, file_idx) - At(video_sizes, file_idx),
      MaxSector(video_sizes, file_idx)>>

\* line[k] of [*rawline.split(' ', maxsplit=6), *([None] * 6)], as a token:
\* the empty token stands for None where the code tests `or 0`
Field(rawline, k) == IF k < Len(rawline) THEN rawline[k + 1] ELSE ""

\* int(name.split(':')[0]) succeeds: the line is a frame record
FrameNames == {"0:", "1:", "2:"}

IsFrameName(name) == name \in FrameNames \/ IsInt(name)

\* curr_SEQ < idx_file_sector[0]: the line lies before the window (continue)
BeforeWindow(curr_SEQ, idx_file_sector) == curr_SEQ < idx_file_sector[1]

\* curr_SEQ > idx_file_sector[1]: the window is consumed (break)
AfterWindow(curr_SEQ, idx_file_sector) == curr_SEQ > idx_file_sector[2]

\* opt_int(tok): None for a missing field
OptInt(tok) == IF tok = "" THEN None ELSE IntTok(tok)

\* the fields int() is applied to when a frame record is built
FrameFieldsOk(rawline) ==
    \A k \in {2, 4, 5} : Field(rawline, k) = "" \/ IsInt(Field(rawline, k))

\* DGIndexFrameData(int(line[2] or 0) + 2, str(line[1]), *opt_ints(line[4:6]))
DGIndexFrameData(rawline) ==
    [matrix |-> (IF Field(rawline, 2) = "" THEN 0
                 ELSE IntTok(Field(rawline, 2))) + 2,
     pic_type |-> IF Len(rawline) > 1 THEN rawline[2] ELSE "None",
     vob |-> OptInt(Field(rawline, 4)),
     cell |-> OptInt(Field(rawline, 5))]

\* the loop of lines 176-199 from line i on: acc.frame_data is the list
\* built so far, acc.frame_lines the positions of the lines it came from
RECURSIVE ScanFrames(_, _, _, _, _)
ScanFrames(lines, i, curr_SEQ, idx_file_sector, acc) ==
    IF i > Len(lines) \/ lines[i] = Blank THEN acc
    ELSE
    LET rawline == lines[i]
        name == rawline[1]
        seqOk == name # "SEQ" \/ Field(rawline, 1) = "" \/ IsInt(Field(rawline, 1))
        seq == IF name = "SEQ"
               THEN (IF Field(rawline, 1) = "" THEN 0 ELSE IntTok(Field(rawline, 1)))
               ELSE curr_SEQ
    IN  IF ~seqOk THEN [acc EXCEPT !.exc = ValueError]
        ELSE IF BeforeWindow(seq, idx_file_sector)
             THEN ScanFrames(lines, i + 1, seq, idx_file_sector, acc)
        ELSE IF AfterWindow(seq, idx_file_sector) THEN acc
        ELSE IF ~IsFrameName(name)
             THEN ScanFrames(lines, i + 1, seq, idx_file_sector, acc)
        ELSE IF ~FrameFieldsOk(rawline) THEN [acc EXCEPT !.exc = ValueError]
        ELSE ScanFrames(lines, i + 1, seq, idx_file_sector,
                [acc EXCEPT !.frame_data = Append(@, DGIndexFrameData(rawline)),
                            !.frame_lines = Append(@, i)])

-----------------------------------------------------------------------------
(* DGIndexNV.get_info: the footer                                          *)

\* DGIndexFooter(): the defaults of the dataclass
DGIndexFooter ==
    [film |-> 0, frames_coded |-> 0, frames_playback |-> 0, order |-> 0,
     exc |-> NoExc]

\* mutant: each key matched by its whole name in upper case
FooterKeys_Full ==
    <<[key |-> "film", tag |-> "FILM"],
      [key |-> "frames_coded", tag |-> "FRAMES_CODED"],
      [key |-> "frames_playback", tag |-> "FRAMES_PLAYBACK"],
      [key |-> "order", tag |-> "ORDER"]>>

\* footer.__dict__.keys(), each with key.split('_')[-1].upper()
FooterKeys ==
    <<[key |-> "film", tag |-> "FILM"],
      [key |-> "frames_coded", tag |-> "CODED"],
      [key |-> "frames_playback", tag |-> "PLAYBACK"],
      [key |-> "order", tag |-> "ORDER"]>>

\* float(v.replace('%', '')) of the percentages that occur, in percent
PctTok == <<"0.00%", "1.00%", "2.00%">>

IsPct(t) == \E n \in 1..Len(PctTok) : PctTok[n] = t

PctVal(t) == (CHOOSE n \in 1..Len(PctTok) : PctTok[n] = t) - 1

\* '%' in v, for a string v
HasPct(v) == \E i \in 1..Len(v) : IsPct(v[i])

\* a token as a string; the empty token is the empty string
Str1(tok) == IF tok = "" THEN <<>> ELSE <<tok>>

\* values = [split_val[0], ' '.join(split_val[1:])]
FooterValues(rlin) == <<Str1(Split(rlin)[1]), Tail(Split(rlin))>>

\* lines 210-219 for one key of the footer
FooterKey(f, k, values) ==
    IF f.exc # NoExc \/ (values[1] # <<k.tag>> /\ values[2] # <<k.tag>>) THEN f
    ELSE IF k.key = "film"
    THEN LET pcts == SelectSeq(values, HasPct)
         IN  IF pcts = <<>> THEN [f EXCEPT !.film = 0]
             ELSE IF \E i \in 1..Len(pcts) : Len(pcts[i]) # 1
                  THEN [f EXCEPT !.exc = ValueError]
             ELSE [f EXCEPT !.film = PctVal(pcts[1][1])]
    ELSE IF ~IsIntStr(values[2]) THEN [f EXCEPT !.exc = ValueError]
    ELSE [f EXCEPT ![k.key] = IntTok(values[2][1])]

\* one pass of the loop of lines 203-219
FooterLine(f, rlin) ==
    LET values == FooterValues(rlin)
    IN  FooterKey(FooterKey(FooterKey(FooterKey(f, FooterKeys[1], values),
            FooterKeys[2], values), FooterKeys[3], values), FooterKeys[4], values)

RECURSIVE ParseFooter(_, _)
ParseFooter(f, lines) ==
    IF lines = <<>> \/ f.exc # NoExc THEN f
    ELSE ParseFooter(FooterLine(f, Head(lines)), Tail(lines))

\* lines[-10:]
FooterSpan == 10

LastLines(lines) == Slice(lines, Max(1, Len(lines) - FooterSpan + 1), Len(lines))

-----------------------------------------------------------------------------
(* DGIndexNV.get_info without its cache: lines 120-221                     *)

\* the model a call that raises does not return
NoPath == [folder |-> "", name |-> <<>>]

NoInfo ==
    [path |-> NoPath, file_idx |-> 0, header |-> DGIndexHeader,
     frame_data |-> <<>>, footer |-> DGIndexFooter]

InfoRaise(e) ==
    [exc |-> e, info |-> NoInfo, frame_lines |-> <<>>, warnings |-> 0]

\* the parse of lines 133-221, once the three blocks are split off; the
\* positions in frame_lines count from the first line after the header block
ParseBlocks(index_path, file_idx, debug, vid_lines, raw_header, lines) ==
    LET header == ParseHeader(DGIndexHeader, raw_header, debug)
    IN  IF header.exc # NoExc THEN InfoRaise(header.exc)
        ELSE IF ~VideoSizesOk(vid_lines) THEN InfoRaise(ValueError)
        ELSE IF ~InRange(VideoSizes(vid_lines), file_idx) THEN InfoRaise(IndexError)
        ELSE
        LET scan == ScanFrames(lines, 1, 0,
                        IdxFileSector(VideoSizes(vid_lines), file_idx),
                        [exc |-> NoExc, frame_data |-> <<>>, frame_lines |-> <<>>])
            footer == ParseFooter(DGIndexFooter, LastLines(lines))
        IN  IF scan.exc # NoExc THEN InfoRaise(scan.exc)
            ELSE IF footer.exc # NoExc THEN InfoRaise(footer.exc)
            ELSE [exc |-> NoExc,
                  info |-> [path |-> index_path, file_idx |-> file_idx,
                            header |-> header, frame_data |-> scan.frame_data,
                            footer |-> footer],
                  frame_lines |-> scan.frame_lines,
                  warnings |-> header.warnings]

\* get_info(index_path, file_idx) on a file of this content, the cache aside
ParseIndex(content, index_path, file_idx, debug) ==
    LET lines == SplitNL(content)
    IN  IF ~HasBlank(lines) THEN InfoRaise(ValueError)
        ELSE IF SplitHead(lines) = <<>> THEN InfoRaise(IndexError)
        ELSE IF ~HasSignature(SplitHead(lines)[1]) THEN InfoRaise(FileCorrupted)
        ELSE IF ~HasBlank(SplitRest(lines)) THEN InfoRaise(ValueError)
        ELSE IF ~HasBlank(SplitRest(SplitRest(lines))) THEN InfoRaise(ValueError)
        ELSE ParseBlocks(index_path, file_idx, debug,
                SplitHead(SplitRest(lines)),
                SplitHead(SplitRest(SplitRest(lines))),
                SplitRest(SplitRest(SplitRest(lines))))

-----------------------------------------------------------------------------
(* Index files as the external tool writes them (section 6 of the format): *)
(* signature and tool folder, file list, header, frame data, footer.       *)

SigLine == <<"DGIndexNV", "2053.0.0.237">>

BinLine == <<"/opt/dgdecnv/">>

\* a file-list row: the path, then the declared size
Row(path, size) == PathStr(path) \o <<TokInt(size)>>

SeqLine(n) == <<"SEQ", TokInt(n)>>

FrameLine == <<"0:", "I", "1">>

HeaderBlock == << <<"DEPTH", "8">>, <<"ASPECT", "4", "3">> >>

FooterBlock ==
    << <<"CODED", "2">>, <<"PLAYBACK", "2">>, <<"0.00%", "FILM">>, <<"ORDER", "1">> >>

IndexFile(head, rows, header, frames, footer) ==
    head \o <<Blank>> \o rows \o <<Blank>> \o header \o <<Blank>>
         \o frames \o <<Blank>> \o footer

BoundedSeq(S, n) == UNION {[1..k -> S] : k \in 0..n}

\* the call record of a state in which no call was made yet
NoCall ==
    [op |-> "none", exc |-> NoExc, path |-> NoPath, files |-> <<>>,
     file_idx |-> 0, force |-> FALSE, split_files |-> FALSE, ret |-> <<>>,
     info |-> NoInfo, frame_lines |-> <<>>, warnings |-> 0, opened |-> FALSE,
     writes |-> <<>>, tool |-> <<>>, patched |-> <<>>, unlinked |-> <<>>,
     hash |-> <<>>, before |-> <<>>]

\* the cache before the first call
NoCache == <<>>

\* nothing returned yet
NoSeen == [key |-> <<NoPath, 0>>, info |-> NoInfo, set |-> FALSE]

-----------------------------------------------------------------------------
(* ParseSpec: get_info as a function of the index text.  The initial state *)
(* holds one index file drawn from the bounded inputs; Parse applies the   *)
(* parser to it for a file_idx.                                            *)

ParsePath == [folder |-> "/a", name |-> <<"x", <<>>, "JOINED", "DGIndexNV">>]

\* SEQ markers run from 0 to one past the largest declared size
SeqVals == 0..(MaxSize + 1)

FrameEntries == {SeqLine(n) : n \in SeqVals} \cup {FrameLine}

RowSizes == UNION {[1..k -> 0..MaxSize] : k \in 1..MaxRows}

RowsOf(sizes) == [i \in 1..Len(sizes) |-> Row(FileTab[i], sizes[i])]

ConformantInputs ==
    {IndexFile(<<SigLine, BinLine>>, RowsOf(sizes), HeaderBlock, frames, FooterBlock) :
        sizes \in RowSizes, frames \in BoundedSeq(FrameEntries, MaxFrameLines)}

\* the file-list block and the frame block of the damaged inputs
SomeRows == RowsOf([i \in 1..MaxRows |-> MaxSize])

SomeFrames == <<SeqLine(0), FrameLine>>

\* a wrong signature, a blank first line, the empty file, no header block
DamagedInputs ==
    {IndexFile(<<BinLine>>, SomeRows, HeaderBlock, SomeFrames, FooterBlock),
     IndexFile(<<>>, SomeRows, HeaderBlock, SomeFrames, FooterBlock),
     EmptyFile,
     <<SigLine, Blank>> \o SomeRows}

ParseInputs == ConformantInputs \cup DamagedInputs

FileIdxs == -1..MaxRows

ParseInit ==
    /\ \E content \in ParseInputs : fs = (ParsePath :> content)
    /\ built = (ParsePath :> 0)
    /\ cache = NoCache
    /\ result = NoCall
    /\ tick = 0
    /\ seen = NoSeen
    /\ src_file = <<>>

Parse(file_idx, debug) ==
    /\ result.op = "none"
    /\ \E r \in {ParseIndex(fs[ParsePath], ParsePath, file_idx, debug)} :
           result' = [NoCall EXCEPT !.op = "get_info", !.exc = r.exc,
                        !.path = ParsePath, !.file_idx = file_idx,
                        !.info = r.info, !.frame_lines = r.frame_lines,
                        !.warnings = r.warnings, !.opened = TRUE]
    /\ UNCHANGED <<fs, built, cache, tick, seen, src_file>>

ParseNext == \E file_idx \in FileIdxs, debug \in BOOLEAN : Parse(file_idx, debug)

ParseSpec == ParseInit /\ [][ParseNext]_vars

\* AnomalySpec: get_info on index texts whose frame data may hold a blank
\* line before its end, besides the conformant ones
BlankInside ==
    {IndexFile(<<SigLine, BinLine>>, RowsOf(sizes), HeaderBlock,
               <<before>> \o <<Blank>> \o <<after>>, FooterBlock) :
        sizes \in RowSizes, before \in FrameEntries, after \in FrameEntries}

AnomalyInputs == ConformantInputs \cup BlankInside

AnomalyInit ==
    /\ \E content \in AnomalyInputs : fs = (ParsePath :> content)
    /\ built = (ParsePath :> 0)
    /\ cache = NoCache
    /\ result = NoCall
    /\ tick = 0
    /\ seen = NoSeen
    /\ src_file = <<>>

AnomalySpec == AnomalyInit /\ [][ParseNext]_vars

\* AspectSpec: get_info on index texts whose header gives the aspect ratio
\* with numerators and denominators from 0 on
AspectLine(num, den) == <<"ASPECT", NumTok[num + 1], NumTok[den + 1]>>

AspectVals == 0..MaxSize

AspectHeaders ==
    {<<<<"DEPTH", "8">>, AspectLine(num, den)>> :
        num \in AspectVals, den \in AspectVals}
    \cup {<<AspectLine(num, 0), AspectLine(0, den)>> :
        num \in AspectVals, den \in AspectVals}

AspectInputs ==
    {IndexFile(<<SigLine, BinLine>>, RowsOf(sizes), header, frames, FooterBlock) :
        sizes \in RowSizes, header \in AspectHeaders,
        frames \in BoundedSeq(FrameEntries, 1)}

AspectInit ==
    /\ \E content \in AspectInputs : fs = (ParsePath :> content)
    /\ built = (ParsePath :> 0)
    /\ cache = NoCache
    /\ result = NoCall
    /\ tick = 0
    /\ seen = NoSeen
    /\ src_file = <<>>

AspectSpec == AspectInit /\ [][ParseNext]_vars

\* FooterSpec: get_info on index texts whose footer holds one line for each
\* footer field, in any order, the field named in full or by its last word
FooterNums == 1..(MaxSize + 1)

FooterKinds == 1..4

\* the line of one field: film, frames_coded, frames_playback, order
FooterText(kind, full, n) ==
    CASE kind = 1 -> IF full THEN <<"FILM", PctTok[n + 1]>>
                     ELSE <<PctTok[n + 1], "FILM">>
      [] kind = 2 -> <<IF full THEN "FRAMES_CODED" ELSE "CODED", NumTok[n + 1]>>
      [] kind = 3 -> <<IF full THEN "FRAMES_PLAYBACK" ELSE "PLAYBACK", NumTok[n + 1]>>
      [] OTHER -> <<"ORDER", NumTok[n + 1]>>

FooterOrders ==
    {p \in [FooterKinds -> FooterKinds] : \A i, j \in FooterKinds : p[i] = p[j] => i = j}

FooterBlocks ==
    {[i \in FooterKinds |-> FooterText(p[i], full[p[i]], IF p[i] = 1 THEN 1 ELSE n[p[i]])] :
        p \in FooterOrders, full \in [FooterKinds -> BOOLEAN],
        n \in [FooterKinds -> FooterNums]}

FooterInputs ==
    {IndexFile(<<SigLine, BinLine>>, RowsOf(<<MaxSize>>), HeaderBlock,
               SomeFrames, footer) : footer \in FooterBlocks}

FooterInit ==
    /\ \E content \in FooterInputs : fs = (ParsePath :> content)
    /\ built = (ParsePath :> 0)
    /\ cache = NoCache
    /\ result = NoCall
    /\ tick = 0
    /\ seen = NoSeen
    /\ src_file = <<>>

FooterSpec == FooterInit /\ [][ParseNext]_vars

-----------------------------------------------------------------------------
(* UpdateSpec: update_video_filenames on one index file.  The initial      *)
(* state holds an index file whose rows name the sources at their current  *)
(* or at an old location; Update patches it for a list of filepaths.       *)

\* the paths of sources that were moved since the index was written
OldPaths == {<<"/old/x.mkv">>, <<"/old/my", "y.mkv">>}

\* rows naming a moved source: the path and the declared size, and one row
\* that carries a per-file argument between the two
OldRows ==
    {p \o <<TokInt(MaxSize)>> : p \in OldPaths}
        \cup {<<"/old/x.mkv", "-a", TokInt(MaxSize)>>}

RowLines == {Row(f, MaxSize) : f \in Files} \cup OldRows

RowBlocks == UNION {[1..k -> RowLines] : k \in 1..MaxRows}

\* with and without a newline after the last line
UpdateInputs ==
    LET files == {IndexFile(<<SigLine, BinLine>>, rows, HeaderBlock, SomeFrames,
                            FooterBlock) : rows \in RowBlocks}
    IN  files \cup {c \o <<Blank>> : c \in files} \cup DamagedInputs

UpdateInit ==
    /\ \E content \in UpdateInputs : fs = (ParsePath :> content)
    /\ built = (ParsePath :> 0)
    /\ cache = NoCache
    /\ result = NoCall
    /\ tick = 0
    /\ seen = NoSeen
    /\ src_file = <<>>

\* update_video_filenames(index_path, filepaths)
Update(index_path, filepaths) ==
    /\ index_path \in DOMAIN fs
    /\ \E r \in {UpdateVideoFilenames(fs[index_path], filepaths)} :
           /\ fs' = [fs EXCEPT ![index_path] = r.content]
           /\ result' = [NoCall EXCEPT !.op = "update", !.exc = r.exc,
                            !.path = index_path, !.files = filepaths,
                            !.before = fs[index_path],
                            !.writes = IF r.wrote THEN <<index_path>> ELSE <<>>]
    /\ tick' = 1 - tick
    /\ UNCHANGED <<built, cache, seen, src_file>>

UpdateNext == \E filepaths \in BoundedSeq(Files, MaxRows) : Update(ParsePath, filepaths)

UpdateSpec == UpdateInit /\ [][UpdateNext]_vars

-----------------------------------------------------------------------------
(* DGIndexNVAddFilenames.index and the helpers it inherits                 *)

ToolError == "ToolInvocationError"

FileNotFound == "FileNotFoundError"

\* the set of a list's elements
Elems(seq) == {seq[i] : i \in 1..Len(seq)}

\* list(sorted(set(files)))
RECURSIVE SortedList(_)
SortedList(S) ==
    IF S = {} THEN <<>>
    ELSE LET least == CHOOSE p \in S : \A q \in S \ {p} : PathLess(p, q)
         IN  <<least>> \o SortedList(S \ {least})

SortedSet(files) == SortedList(Elems(files))

\* ExternalIndexer.get_videos_hash(files): a digest of the list as given
GetVideosHash(files) == [i \in 1..Len(files) |-> PathStr(files[i])]

\* ExternalIndexer.get_out_folder(None, file): the folder of the file
GetOutFolder(file) == file.folder

\* SPath(video_name): a tag or a file name, as stem and suffix
TagName(tag) == [stem |-> tag, ext |-> ""]

FileName(file) == [stem |-> file.stem, ext |-> file.ext]

\* mutant: the name is built without the tag
GetVideoIdxPath_NoTag(file_name, folder, file_hash, video_name) ==
    [folder |-> folder,
     name |-> <<file_name.stem, file_hash, "DGIndexNV">>]

\* get_video_idx_path(file_name, folder, file_hash, video_name): the file
\* '_'.join([file_name.stem, file_hash, SPath(video_name).stem, 'DGIndexNV'])
\* of the folder's storage
GetVideoIdxPath(file_name, folder, file_hash, video_name) ==
    [folder |-> folder,
     name |-> <<file_name.stem, file_hash, video_name.stem, "DGIndexNV">>]

\* the declared size the tool records for a source file
DeclaredSize == 1

\* the frame-data block the tool writes for n files: each file's first
\* sector marker, then its frame
RECURSIVE ToolFrames(_)
ToolFrames(n) ==
    IF n = 0 THEN <<>>
    ELSE ToolFrames(n - 1) \o <<SeqLine((n - 1) * DeclaredSize), FrameLine>>

\* ExternalIndexer._run_index(files, output, cmd_args), when the tool exits
\* with 0: the index file it leaves at output
ToolOutput(files) ==
    IndexFile(<<SigLine, BinLine>>,
              [i \in 1..Len(files) |-> Row(files[i], DeclaredSize)],
              HeaderBlock, ToolFrames(Len(files)), FooterBlock)

Remove(f, k) == [x \in DOMAIN f \ {k} |-> f[x]]

Put(f, k, v) == [x \in DOMAIN f \cup {k} |-> IF x = k THEN v ELSE f[x]]

\* the running state of one index() call: the disk, the exception that
\* ended it, the paths returned, and what it did in order
CallState(disk, made) ==
    [fs |-> disk, built |-> made, exc |-> NoExc, ret |-> <<>>, hash |-> <<>>,
     tool |-> <<>>, patched |-> <<>>, writes |-> <<>>, unlinked |-> <<>>]

\* self._run_index(files, output, cmd_args); the tool fails at its
\* failAt-th invocation of the call
RunIndex(st, files, output, cmd_args, failAt) ==
    LET ran == [st EXCEPT !.tool = Append(@, [files |-> files, output |-> output,
                                              cmd_args |-> cmd_args])]
    IN  IF Len(ran.tool) = failAt THEN [ran EXCEPT !.exc = ToolError]
        ELSE [ran EXCEPT !.fs = Put(@, output, ToolOutput(files)),
                         !.built = Put(@, output, Len(files))]

\* mutant: an existing index is never deleted
MustReindex_Never(content, force) == FALSE

\* mutant: an existing index is never reused
MustReindex_Always(content, force) == TRUE

\* the condition of line 252: the file is empty, or force is set
MustReindex(content, force) == content = EmptyFile \/ force

\* the then-branch of line 251 for a file that is kept: line 255
PatchIndex(st, files, output) ==
    LET r == UpdateVideoFilenames(st.fs[output], files)
    IN  [st EXCEPT !.patched = Append(@, [output |-> output, files |-> files]),
                   !.exc = r.exc,
                   !.fs = Put(@, output, r.content),
                   !.writes = IF r.wrote THEN Append(@, output) ELSE @]

\* _index(files, output), lines 250-257
IndexOutput(st, files, output, force, cmd_args, failAt) ==
    IF st.exc # NoExc THEN st
    ELSE IF output \in DOMAIN st.fs
    THEN IF MustReindex(st.fs[output], force)
         THEN RunIndex([st EXCEPT !.fs = Remove(@, output),
                                  !.built = Remove(@, output),
                                  !.unlinked = Append(@, output)],
                       files, output, cmd_args, failAt)
         ELSE PatchIndex(st, files, output)
    ELSE RunIndex(st, files, output, cmd_args, failAt)

\* the loop of lines 266-267 over zip(files, outputs), from position i on
RECURSIVE IndexEach(_, _, _, _, _, _, _)
IndexEach(st, files, outputs, i, force, cmd_args, failAt) ==
    IF i > Len(files) THEN st
    ELSE IndexEach(IndexOutput(st, <<files[i]>>, outputs[i], force, cmd_args, failAt),
                   files, outputs, i + 1, force, cmd_args, failAt)

\* the tag of line 260
JoinTag(files) == IF Len(files) > 1 THEN "JOINED" ELSE "SINGLE"

\* sorted(files), every occurrence kept
RECURSIVE SortedAll(_)
SortedAll(seq) ==
    IF seq = <<>> THEN <<>>
    ELSE LET k == CHOOSE i \in 1..Len(seq) :
                      \A j \in 1..Len(seq) : ~PathLess(seq[j], seq[i])
         IN  <<seq[k]>> \o SortedAll(Slice(seq, 1, k - 1) \o Slice(seq, k + 1, Len(seq)))

\* mutant: the list sorted without the set
Canonical_Sorted(files) == SortedAll(files)

\* mutant: the list hashed and indexed in the caller's order
Canonical_AsGiven(files) == files

\* files = list(sorted(set(files))), line 246
Canonical(files) == SortedSet(files)

\* mutant: the joined output is returned also for split files
Returned_Joined(split_files, output, outputs) == <<output>>

\* what index() returns for one folder: [output] (line 262) or outputs (269)
Returned(split_files, output, outputs) ==
    IF split_files THEN outputs ELSE <<output>>

\* lines 244-269: index() on files of one folder, continuing the call st
IndexFolder(st, given, force, split_files, cmd_args, failAt) ==
    IF st.exc # NoExc THEN st
    ELSE IF given = <<>> THEN [st EXCEPT !.exc = IndexError]
    ELSE
    LET dest_folder == GetOutFolder(given[1])
        files == Canonical(given)
        hash_str == GetVideosHash(files)
        output == GetVideoIdxPath(files[1], dest_folder, hash_str,
                                  TagName(JoinTag(files)))
        outputs == [i \in 1..Len(files) |->
                       GetVideoIdxPath(files[i], dest_folder, hash_str,
                                       FileName(files[i]))]
        hashed == [st EXCEPT !.hash = Append(@, hash_str)]
        done == IF split_files
                THEN IndexEach(hashed, files, outputs, 1, force, cmd_args, failAt)
                ELSE IndexOutput(hashed, files, output, force, cmd_args, failAt)
    IN  IF \E i \in 1..Len(files) : ~files[i].exists
        THEN [st EXCEPT !.exc = FileNotFound]
        ELSE IF done.exc # NoExc THEN done
        ELSE [done EXCEPT !.ret = @ \o Returned(split_files, output, outputs)]

\* [f.get_folder().to_str() for f in files]
Folders(files) == {files[i].folder : i \in 1..Len(files)}

\* mutant: every folder's group is the whole list
InFolder_All(files, folder) == files

\* [f for f in files if f.get_folder().to_str() == folder], line 237
InFolder(files, folder) ==
    LET in(f) == f.folder = folder IN SelectSeq(files, in)

\* lines 234-242: one recursive index() per folder, in the order the set of
\* folders is listed, without the caller's cmd_args
RECURSIVE IndexGroups(_, _, _, _, _, _)
IndexGroups(st, files, unique_folders, force, split_files, failAt) ==
    IF unique_folders = <<>> THEN st
    ELSE IndexGroups(
            IndexFolder(st, InFolder(files, Head(unique_folders)), force,
                        split_files, <<>>, failAt),
            files, Tail(unique_folders), force, split_files, failAt)

\* index(files, force, split_files, None, *cmd_args) on this disk;
\* unique_folders is list(set(...)) in the order the set happens to have
IndexCall(disk, made, files, force, split_files, cmd_args, unique_folders, failAt) ==
    IF Len(unique_folders) > 1
    THEN IndexGroups(CallState(disk, made), files, unique_folders, force,
                     split_files, failAt)
    ELSE IndexFolder(CallState(disk, made), files, force, split_files,
                     cmd_args, failAt)

-----------------------------------------------------------------------------
(* Spec: the indexing cache at work.  The disk starts without index files; *)
(* index() and get_info are called in any order, and an index file can be  *)
(* damaged behind the program's back.                                      *)

NoDisk == [k \in {} |-> EmptyFile]

NoBuilt == [k \in {} |-> 0]

CmdArgs == {<<>>}

\* the tool invocations a call can make: one per output
MaxRuns(files, split_files) ==
    IF split_files THEN Cardinality(Elems(files)) ELSE Cardinality(Folders(files))

\* the orders list(set(folders)) can have
Orders(S) == {o \in [1..Cardinality(S) -> S] : Elems(o) = S}

Init ==
    /\ fs = NoDisk
    /\ built = NoBuilt
    /\ cache = NoCache
    /\ result = NoCall
    /\ tick = 0
    /\ seen = NoSeen
    /\ src_file = <<>>

\* index(files, force, split_files, None, *cmd_args)
Index(files, force, split_files, cmd_args, unique_folders, failAt) ==
    \E st \in {IndexCall(fs, built, files, force, split_files, cmd_args,
                          unique_folders, failAt)} :
        /\ Cardinality(DOMAIN st.fs) <= MaxIndexFiles
        /\ fs' = st.fs
        /\ built' = st.built
        /\ result' = [NoCall EXCEPT !.op = "index", !.exc = st.exc,
                        !.files = files, !.force = force,
                        !.split_files = split_files, !.ret = st.ret,
                        !.hash = st.hash, !.tool = st.tool,
                        !.patched = st.patched, !.writes = st.writes,
                        !.unlinked = st.unlinked]
        /\ UNCHANGED <<cache, tick, seen, src_file>>

\* the position of a key in the cache, 0 when it holds no entry for it
CachePos(entries, key) ==
    IF \E i \in 1..Len(entries) : entries[i].key = key
    THEN CHOOSE i \in 1..Len(entries) : entries[i].key = key
    ELSE 0

\* a hit makes the entry the most recently used one
Touch(entries, i) ==
    Slice(entries, 1, i - 1) \o Slice(entries, i + 1, Len(entries)) \o <<entries[i]>>

\* a new entry; past the capacity the least recently used entry is dropped
Store(entries, key, info) ==
    LET more == Append(entries, [key |-> key, info |-> info])
    IN  IF Len(more) > MaxCached THEN Tail(more) ELSE more

\* get_info(index_path, file_idx) under @lru_cache: a hit returns the cached
\* model without opening the file, a miss parses the file and caches what
\* the parse returns
GetInfoCall(index_path, file_idx, debug) ==
    LET key == <<index_path, file_idx>>
        pos == CachePos(cache, key)
        hit == pos # 0
    IN  \E r \in {IF hit THEN InfoRaise(NoExc)
                  ELSE IF index_path \in DOMAIN fs
                  THEN ParseIndex(fs[index_path], index_path, file_idx, debug)
                  ELSE InfoRaise(FileNotFound)} :
        /\ result' = [NoCall EXCEPT !.op = "get_info",
                        !.exc = IF hit THEN NoExc ELSE r.exc,
                        !.path = index_path, !.file_idx = file_idx,
                        !.info = IF hit THEN cache[pos].info ELSE r.info,
                        !.frame_lines = IF hit THEN <<>> ELSE r.frame_lines,
                        !.warnings = IF hit THEN 0 ELSE r.warnings,
                        !.opened = ~hit]
        /\ cache' = IF hit THEN Touch(cache, pos)
                    ELSE IF r.exc = NoExc THEN Store(cache, key, r.info)
                    ELSE cache
        /\ UNCHANGED <<fs, built, tick, src_file>>

GetInfo(index_path, file_idx, debug) ==
    /\ GetInfoCall(index_path, file_idx, debug)
    /\ UNCHANGED seen

\* get_info called by an observer who keeps the first model it was returned
Observe(index_path, file_idx, debug) ==
    /\ GetInfoCall(index_path, file_idx, debug)
    /\ seen' = IF ~seen.set /\ result'.exc = NoExc
               THEN [key |-> <<index_path, file_idx>>, info |-> result'.info,
                     set |-> TRUE]
               ELSE seen

\* the rows of the file-list block of a well-formed index file
FileList(content) == SplitHead(SplitRest(ReadLines(content)))

HasFileList(content) ==
    /\ HasBlank(ReadLines(content))
    /\ HasBlank(SplitRest(ReadLines(content)))

\* damage: the last row of the file-list block is lost
DropLastRow(content) ==
    LET lines == ReadLines(content)
        end == IndexOf(lines, Blank, IndexOf(lines, Blank, 1) + 1)
    IN  Slice(lines, 1, end - 2) \o Slice(lines, end, Len(lines))

Truncate(index_path) ==
    /\ index_path \in DOMAIN fs
    /\ HasFileList(fs[index_path])
    /\ FileList(fs[index_path]) # <<>>
    /\ fs' = [fs EXCEPT ![index_path] = DropLastRow(@)]
    /\ result' = [NoCall EXCEPT !.op = "truncate", !.path = index_path]
    /\ UNCHANGED <<built, cache, tick, seen, src_file>>

\* the indexing requests of one process
Next ==
    \E files \in BoundedSeq(Files, MaxInput), force \in BOOLEAN,
       split_files \in BOOLEAN, cmd_args \in CmdArgs :
       \E unique_folders \in Orders(Folders(files)),
          failAt \in 0..MaxRuns(files, split_files) :
          Index(files, force, split_files, cmd_args, unique_folders, failAt)

Spec == Init /\ [][Next]_vars

\* indexing the files of one folder, parsing the indexes through the cache,
\* and damage done to an index file between the calls
InfoFiles == {f \in Files : f.folder = "/a"}

InfoNext ==
    \/ \E files \in BoundedSeq(InfoFiles, MaxInput), force \in BOOLEAN,
          split_files \in BOOLEAN, cmd_args \in CmdArgs :
          \E unique_folders \in Orders(Folders(files)) :
             Index(files, force, split_files, cmd_args, unique_folders, 0)
    \/ \E index_path \in DOMAIN fs, file_idx \in FileIdxs :
          GetInfo(index_path, file_idx, FALSE)
    \/ \E index_path \in DOMAIN fs : Truncate(index_path)

InfoSpec == Init /\ [][InfoNext]_vars

\* the indexing requests of one process over the files of one folder
FolderNext ==
    \E files \in BoundedSeq(InfoFiles, MaxInput), force \in BOOLEAN,
       split_files \in BOOLEAN, cmd_args \in CmdArgs :
       \E unique_folders \in Orders(Folders(files)),
          failAt \in 0..MaxRuns(files, split_files) :
          Index(files, force, split_files, cmd_args, unique_folders, failAt)

FolderSpec == Init /\ [][FolderNext]_vars

-----------------------------------------------------------------------------
(* ReuseSpec: index() against a folder that already holds index files, one *)
(* of them possibly left damaged by an interrupted run or by hand.         *)

\* an index whose first line lacks the signature
Unsigned(content) == <<BinLine>> \o Tail(content)

\* an index whose rows name the sources at an old location
Moved(content) ==
    LET start == IndexOf(content, Blank, 1) + 1
        end == IndexOf(content, Blank, start)
    IN  [i \in 1..Len(content) |->
            IF start <= i /\ i < end
            THEN <<"/old/x.mkv", Last(content[i])>> ELSE content[i]]

\* an index cut off after its first line
CutShort(content) == <<Head(content)>>

\* what can be found in place of an index the tool wrote
LeftBehind(content) ==
    {content, EmptyFile, Unsigned(content), DropLastRow(content),
     Moved(content), CutShort(content)}

\* the disks a first successful request leaves
FirstRuns ==
    {IndexCall(NoDisk, NoBuilt, files, FALSE, split_files, <<>>,
               <<files[1].folder>>, 0) :
        files \in BoundedSeq(InfoFiles, MaxInput) \ {<<>>},
        split_files \in BOOLEAN}

ReuseInit ==
    /\ \E st \in FirstRuns :
          /\ Cardinality(DOMAIN st.fs) <= MaxIndexFiles
          /\ \E p \in DOMAIN st.fs :
                \E content \in LeftBehind(st.fs[p]) :
                    fs = [st.fs EXCEPT ![p] = content]
          /\ built = st.built
    /\ cache = NoCache
    /\ result = NoCall
    /\ tick = 0
    /\ seen = NoSeen
    /\ src_file = <<>>

\* the requests that follow, the tool succeeding whenever it is run
ReuseNext ==
    \E files \in BoundedSeq(InfoFiles, MaxInput), force \in BOOLEAN,
       split_files \in BOOLEAN, cmd_args \in CmdArgs :
       \E unique_folders \in Orders(Folders(files)) :
          Index(files, force, split_files, cmd_args, unique_folders, 0)

ReuseSpec == ReuseInit /\ [][ReuseNext]_vars

-----------------------------------------------------------------------------
(* CacheSpec: get_info called again and again, by an observer, on the      *)
(* index files a first request left.                                       *)

CacheInit ==
    /\ \E st \in FirstRuns :
          /\ Cardinality(DOMAIN st.fs) <= MaxIndexFiles
          /\ fs = st.fs
          /\ built = st.built
    /\ cache = NoCache
    /\ result = NoCall
    /\ tick = 0
    /\ seen = NoSeen
    /\ src_file = <<>>

CacheNext ==
    \E index_path \in DOMAIN fs, file_idx \in FileIdxs :
        Observe(index_path, file_idx, FALSE)

CacheSpec == CacheInit /\ [][CacheNext]_vars

-----------------------------------------------------------------------------
(* ScriptSpec: ScriptInfo.index (script/script.py), the caller of the      *)
(* indexer: it checks that every requested path exists, collects the paths *)
(* in src_file and hands that list to index().                             *)

CustomError == "CustomError"

CustomIndexError == "CustomIndexError"

\* mutant: every path passes for an existing file
PathExists_Always(p) == TRUE

\* SPath(p).exists()
PathExists(p) == p.exists

\* the paths the loop of lines 133-137 passes before it raises or ends
RECURSIVE Checked(_)
Checked(path) ==
    IF path = <<>> \/ ~PathExists(Head(path)) THEN <<>>
    ELSE <<Head(path)>> \o Checked(Tail(path))

\* self.src_file[0].to_str().endswith(".dgi"): an index file heads the list
IsDgi(p) == "name" \in DOMAIN p

\* ScriptInfo.index(path, force_reindex=..., cmd_args=...), force_dgi left True
ScriptIndex(path, force_reindex, cmd_args, unique_folders, failAt) ==
    LET passed == Checked(path)
        listed == src_file \o passed
        none == CallState(fs, built)
    IN  /\ Len(listed) <= MaxInput
        /\ \E st \in {IF path = <<>> THEN [none EXCEPT !.exc = CustomError]
                      ELSE IF Len(passed) < Len(path)
                      THEN [none EXCEPT !.exc = FileNotFound]
                      ELSE IF IsDgi(listed[1]) THEN none
                      ELSE IndexCall(fs, built, listed, force_reindex, FALSE,
                                     cmd_args, unique_folders, failAt)} :
              /\ Cardinality(DOMAIN st.fs) <= MaxIndexFiles
              /\ fs' = st.fs
              /\ built' = st.built
              /\ src_file' = IF path = <<>> THEN src_file
                             ELSE IF Len(passed) < Len(path) \/ IsDgi(listed[1])
                                     \/ st.exc # NoExc
                             THEN listed
                             ELSE st.ret
              /\ result' = [NoCall EXCEPT !.op = "script_index",
                              !.exc = IF path = <<>> \/ Len(passed) < Len(path)
                                         \/ st.exc = NoExc
                                      THEN st.exc ELSE CustomIndexError,
                              !.files = path, !.force = force_reindex,
                              !.ret = st.ret, !.hash = st.hash, !.tool = st.tool,
                              !.patched = st.patched, !.writes = st.writes,
                              !.unlinked = st.unlinked]
        /\ UNCHANGED <<cache, tick, seen>>

\* the folders of the list index() is handed
ListedFolders(path) ==
    LET listed == src_file \o Checked(path)
    IN  IF listed = <<>> \/ IsDgi(listed[1]) THEN {} ELSE Folders(listed)

ScriptNext ==
    \E path \in BoundedSeq(Paths, MaxInput), force_reindex \in BOOLEAN,
       cmd_args \in CmdArgs :
       \E unique_folders \in Orders(ListedFolders(path)), failAt \in 0..1 :
          ScriptIndex(path, force_reindex, cmd_args, unique_folders, failAt)

ScriptSpec == Init /\ [][ScriptNext]_vars

-----------------------------------------------------------------------------
(* GroupSpec: one index() request, over files of one or two folders, on a  *)
(* disk that is empty or as one earlier request left it.                   *)

GroupDisks ==
    UNION {{IndexCall(NoDisk, NoBuilt, files, FALSE, split_files, <<>>,
                      unique_folders, 0) :
                unique_folders \in Orders(Folders(files)),
                split_files \in BOOLEAN} :
            files \in BoundedSeq(Files, MaxInput) \ {<<>>}}

GroupInit ==
    /\ \E st \in GroupDisks \cup {CallState(NoDisk, NoBuilt)} :
          /\ Cardinality(DOMAIN st.fs) <= MaxIndexFiles
          /\ fs = st.fs
          /\ built = st.built
    /\ cache = NoCache
    /\ result = NoCall
    /\ tick = 0
    /\ seen = NoSeen
    /\ src_file = <<>>

GroupNext ==
    /\ result.op = "none"
    /\ \E files \in BoundedSeq(Files, MaxInput), force \in BOOLEAN,
          split_files \in BOOLEAN, cmd_args \in CmdArgs :
          \E unique_folders \in Orders(Folders(files)),
             failAt \in 0..MaxRuns(files, split_files) :
             Index(files, force, split_files, cmd_args, unique_folders, failAt)

GroupSpec == GroupInit /\ [][GroupNext]_vars

\* ArgsSpec: one index() request as in GroupSpec, with or without extra
\* command-line arguments for the tool
SomeArgs == {<<>>, <<"-a">>}

ArgsNext ==
    /\ result.op = "none"
    /\ \E files \in BoundedSeq(Files, MaxInput), force \in BOOLEAN,
          split_files \in BOOLEAN, cmd_args \in SomeArgs :
          \E unique_folders \in Orders(Folders(files)),
             failAt \in 0..MaxRuns(files, split_files) :
             Index(files, force, split_files, cmd_args, unique_folders, failAt)

ArgsSpec == GroupInit /\ [][ArgsNext]_vars

\* TwinSpec: index() requests over the files of one folder, two of which
\* share their stem and differ in their suffix
TwinFiles == {FileTab[1], FileTab[2], TwinTab[1]}

TwinNext ==
    \E files \in BoundedSeq(TwinFiles, MaxInput), force \in BOOLEAN,
       split_files \in BOOLEAN, cmd_args \in CmdArgs :
       \E unique_folders \in Orders(Folders(files)) :
          Index(files, force, split_files, cmd_args, unique_folders, 0)

TwinSpec == Init /\ [][TwinNext]_vars

\* StaleSpec: index() and get_info in one process, while the media of the
\* sources can change between two runs of the tool: a run of the tool
\* writes as many frame records per source as its media holds at that time
MediaFrames == 2

RECURSIVE FramesOf(_)
FramesOf(n) == IF n = 0 THEN <<>> ELSE Append(FramesOf(n - 1), FrameLine)

RECURSIVE ToolFramesFor(_, _)
ToolFramesFor(n, frames) ==
    IF n = 0 THEN <<>>
    ELSE ToolFramesFor(n - 1, frames)
            \o <<SeqLine((n - 1) * DeclaredSize)>> \o FramesOf(frames)

\* _run_index(files, output, cmd_args) on media of that many frames
ToolOutputFor(files, frames) ==
    IndexFile(<<SigLine, BinLine>>,
              [i \in 1..Len(files) |-> Row(files[i], DeclaredSize)],
              HeaderBlock, ToolFramesFor(Len(files), frames), FooterBlock)

\* the disk after the tool runs of a call, each on media of that many frames
RECURSIVE Rewritten(_, _, _)
Rewritten(disk, tool, frames) ==
    IF tool = <<>> THEN disk
    ELSE Rewritten(Put(disk, Head(tool).output,
                       ToolOutputFor(Head(tool).files, frames)),
                   Tail(tool), frames)

\* index(files, force, split_files) while the media hold that many frames
MediaIndex(files, force, split_files, unique_folders, frames) ==
    \E st \in {IndexCall(fs, built, files, force, split_files, <<>>,
                          unique_folders, 0)} :
        /\ Cardinality(DOMAIN st.fs) <= MaxIndexFiles
        /\ fs' = Rewritten(st.fs, st.tool, frames)
        /\ built' = st.built
        /\ result' = [NoCall EXCEPT !.op = "index", !.exc = st.exc,
                        !.files = files, !.force = force,
                        !.split_files = split_files, !.ret = st.ret,
                        !.hash = st.hash, !.tool = st.tool,
                        !.patched = st.patched, !.writes = st.writes,
                        !.unlinked = st.unlinked]
        /\ UNCHANGED <<cache, tick, seen, src_file>>

StaleNext ==
    \/ \E files \in BoundedSeq(InfoFiles, MaxInput), force \in BOOLEAN,
          split_files \in BOOLEAN, frames \in 1..MediaFrames :
          \E unique_folders \in Orders(Folders(files)) :
             MediaIndex(files, force, split_files, unique_folders, frames)
    \/ \E index_path \in DOMAIN fs, file_idx \in FileIdxs :
          GetInfo(index_path, file_idx, FALSE)

StaleSpec == Init /\ [][StaleNext]_vars

-----------------------------------------------------------------------------
(* The vocabulary of the claims: the blocks of an index file as the format *)
(* defines them, independent of how the code finds them.                   *)

\* the paths the file-list block records: each row without its last token
RecordedPaths(content) ==
    [i \in 1..Len(FileList(content)) |-> Front(FileList(content)[i])]

\* the declared sizes of the file-list block
DeclaredSizes(content) ==
    [i \in 1..Len(FileList(content)) |-> IntTok(Last(FileList(content)[i]))]

\* three blank-terminated blocks before the frame data
WellFormed(content) ==
    /\ content # EmptyFile
    /\ HasFileList(content)
    /\ HasBlank(SplitRest(SplitRest(SplitNL(content))))
    /\ HasSignature(content[1])

\* the frame-data block: the lines after the header block up to a blank line
FrameBlock(content) ==
    LET rest == SplitRest(SplitRest(SplitRest(SplitNL(content))))
    IN  IF HasBlank(rest) THEN SplitHead(rest) ELSE rest

IsSeqLine(line) == line[1] = "SEQ"

IsFrameLine(line) == line[1] \in FrameNames

\* the sector cursor at line i: the value of the last SEQ marker up to it
Cursor(block, i) ==
    LET marks == {j \in 1..i : IsSeqLine(block[j])}
    IN  IF marks = {} THEN 0
        ELSE IntTok(block[CHOOSE j \in marks : \A k \in marks : k <= j][2])

NonDecreasing(block) ==
    \A i, j \in 1..Len(block) : i <= j => Cursor(block, i) <= Cursor(block, j)

\* the sector window of file i (0-based): [sum(size[0..i)), sum(size[0..i]))
WindowLo(sizes, i) == SumSeq(Slice(sizes, 1, i))

WindowHi(sizes, i) == SumSeq(Slice(sizes, 1, i + 1))

-----------------------------------------------------------------------------
(* C1: for two orderings of the same set of input files of one directory,  *)
(* index computes the same identity hash and returns the same output       *)
(* paths.  Checked on every pair of consecutive index calls.               *)

OneFolderCall(r) ==
    /\ r.op = "index"
    /\ r.exc = NoExc
    /\ Cardinality(Folders(r.files)) = 1

C1_HashOrderInvariant ==
    [][(/\ OneFolderCall(result)
        /\ OneFolderCall(result')
        /\ Elems(result.files) = Elems(result'.files)
        /\ result.split_files = result'.split_files)
       => (result'.hash = result.hash /\ result'.ret = result.ret)]_vars

\* index was called with the files x, "my y" against sorted order and returned
C1_Witness ==
    /\ result.op = "index"
    /\ result.exc = NoExc
    /\ result.files = <<FileTab[2], FileTab[1]>>
    /\ result.hash = <<GetVideosHash(<<FileTab[1], FileTab[2]>>)>>

-----------------------------------------------------------------------------
(* C2: when index(files, force=False) finds its target index present,      *)
(* non-empty and recording the requested paths already, the external tool  *)
(* is not invoked and the index file is not written.  Stated over each     *)
(* index call and the disk it started from; refuted by the code.           *)

C2_ReuseWritesNothing ==
    [][result'.op = "index" =>
        \A i \in 1..Len(result'.patched) :
            LET call == result'.patched[i]
            IN  (/\ call.output \in DOMAIN fs
                 /\ WellFormed(fs[call.output])
                 /\ RecordedPaths(fs[call.output]) = StrFilepaths(call.files))
                => (/\ \A k \in 1..Len(result'.tool) :
                          result'.tool[k].output # call.output
                    /\ \A k \in 1..Len(result'.writes) :
                          result'.writes[k] # call.output)]_vars

-----------------------------------------------------------------------------
(* C3: on a disk without index files, index([f], force=False,              *)
(* split_files=False) invokes the tool exactly once and, the tool having   *)
(* succeeded, returns one path tagged SINGLE; the identical call made      *)
(* right after it invokes the tool zero times and returns the same path.   *)

SingleCall(r) ==
    /\ r.op = "index"
    /\ Len(r.files) = 1
    /\ ~r.force
    /\ ~r.split_files

C3_FreshThenReuse ==
    [][/\ (fs = NoDisk /\ SingleCall(result'))
          => /\ Len(result'.tool) = 1
             /\ result'.exc = NoExc =>
                   /\ Len(result'.ret) = 1
                   /\ result'.ret[1].name[3] = "SINGLE"
                   /\ result'.ret[1] \in DOMAIN fs'
       /\ (/\ SingleCall(result)
           /\ result.exc = NoExc
           /\ Len(result.tool) = 1
           /\ SingleCall(result')
           /\ result'.files = result.files)
          => /\ result'.tool = <<>>
             /\ result'.exc = NoExc
             /\ result'.ret = result.ret]_vars

\* the second of two such calls: the index was found and kept, no tool run
C3_Witness ==
    /\ SingleCall(result)
    /\ result.exc = NoExc
    /\ result.tool = <<>>
    /\ Len(result.patched) = 1
    /\ result.ret[1].name[3] = "SINGLE"

-----------------------------------------------------------------------------
(* C4: get_info returns a frame record for a frame line if and only if the *)
(* SEQ cursor at that line lies in the half-open window [lo, hi) of the    *)
(* requested file; a record at the upper bound belongs to the next file.   *)
(* Stated for indexes whose SEQ markers do not decrease and whose declared *)
(* sizes are positive; refuted by the code.                                *)

ParsedRow(r, content) ==
    /\ r.op = "get_info"
    /\ r.exc = NoExc
    /\ WellFormed(content)
    /\ r.file_idx \in 0..(Len(FileList(content)) - 1)

C4_HalfOpenWindow ==
    LET content == fs[ParsePath]
        block == FrameBlock(content)
        sizes == DeclaredSizes(content)
    IN  (/\ ParsedRow(result, content)
         /\ NonDecreasing(block)
         /\ \A k \in 1..Len(sizes) : sizes[k] > 0) =>
            \A i \in 1..Len(block) :
                IsFrameLine(block[i]) =>
                    (i \in Elems(result.frame_lines)
                        <=> /\ WindowLo(sizes, result.file_idx) <= Cursor(block, i)
                            /\ Cursor(block, i) < WindowHi(sizes, result.file_idx))

-----------------------------------------------------------------------------
(* C5: for a joined index whose SEQ markers do not decrease, the numbers   *)
(* of frame records get_info returns for file_idx 0..n-1 sum to the number *)
(* of frame lines of the frame-data block.  Stated for positive declared   *)
(* sizes and blocks whose records all lie below their sum, in the state    *)
(* after a get_info call; refuted by the code.                             *)

FrameLinesOf(block) == {i \in 1..Len(block) : IsFrameLine(block[i])}

C5_CountsAddUp ==
    LET content == fs[ParsePath]
        block == FrameBlock(content)
        sizes == DeclaredSizes(content)
        counts == [k \in 1..Len(sizes) |->
                      IF k - 1 = result.file_idx THEN Len(result.info.frame_data)
                      ELSE Len(ParseIndex(content, ParsePath, k - 1, FALSE).info.frame_data)]
    IN  (/\ ParsedRow(result, content)
         /\ Len(sizes) > 1
         /\ \A k \in 1..Len(sizes) : sizes[k] > 0
         /\ NonDecreasing(block)
         /\ \A i \in FrameLinesOf(block) : Cursor(block, i) < SumSeq(sizes))
        => SumSeq(counts) = Cardinality(FrameLinesOf(block))

-----------------------------------------------------------------------------
(* C6: two update_video_filenames calls in a row with the same filepaths   *)
(* on the same index file make at most one write: the second writes        *)
(* nothing and leaves the content unchanged, also for paths with spaces.   *)
(* Refuted by the code.                                                    *)

UpdateCall(r) == r.op = "update" /\ r.exc = NoExc

C6_SecondUpdateIsNoOp ==
    [][(/\ UpdateCall(result)
        /\ UpdateCall(result')
        /\ tick' # tick
        /\ result'.path = result.path
        /\ result'.files = result.files)
       => (result'.writes = <<>> /\ fs' = fs)]_vars

-----------------------------------------------------------------------------
(* C7: update_video_filenames with a number of filepaths different from    *)
(* the number of rows of the file-list block ends in the corruption error  *)
(* and does not write the index file.                                      *)

RowMismatch(r) ==
    /\ r.op = "update"
    /\ HasFileList(r.before)
    /\ Len(FileList(r.before)) # Len(r.files)

C7_RowCountMismatchRaises ==
    RowMismatch(result) =>
        /\ result.exc = FileCorrupted
        /\ result.writes = <<>>
        /\ fs[result.path] = result.before

\* a signed index with a file list was patched with too few or too many paths
C7_Witness ==
    /\ RowMismatch(result)
    /\ HasSignature(ReadLines(result.before)[1])
    /\ result.exc = FileCorrupted

-----------------------------------------------------------------------------
(* C8: what a rewrite by update_video_filenames changes.  As claimed: only *)
(* the leading path of each row, every token that followed the path (the   *)
(* per-file arguments and the declared size) kept verbatim and in order.   *)
(* As the code has it (amended): each row becomes the new path followed by *)
(* the row's last token only, the arguments before it are dropped; the     *)
(* rows keep their number and order and every line outside the file-list   *)
(* block is unchanged.                                                     *)

\* the paths a row of a generated index file can start with
RowPaths == {PathStr(f) : f \in Files} \cup OldPaths

\* the number of tokens of the path a row starts with
PathLen(row) ==
    CHOOSE k \in 1..(Len(row) - 1) : SubSeq(row, 1, k) \in RowPaths

\* the tokens that follow the path on a row
RowArgs(row) == SubSeq(row, PathLen(row) + 1, Len(row))

Rewrote(r) == r.op = "update" /\ r.writes # <<>>

OutsideUnchanged(before, after) ==
    /\ SplitHead(ReadLines(after)) = SplitHead(ReadLines(before))
    /\ SplitRest(SplitRest(ReadLines(after))) = SplitRest(SplitRest(ReadLines(before)))

C8_RestOfRowKept ==
    Rewrote(result) =>
        LET old == FileList(result.before)
            new == FileList(fs[result.path])
        IN  /\ OutsideUnchanged(result.before, fs[result.path])
            /\ Len(new) = Len(old)
            /\ \A i \in 1..Len(old) :
                  new[i] = PathStr(result.files[i]) \o RowArgs(old[i])

C8_PathAndLastTokenOnly ==
    Rewrote(result) =>
        LET old == FileList(result.before)
            new == FileList(fs[result.path])
        IN  /\ OutsideUnchanged(result.before, fs[result.path])
            /\ Len(new) = Len(old)
            /\ \A i \in 1..Len(old) :
                  new[i] = PathStr(result.files[i]) \o <<Last(old[i])>>

\* a row carrying an argument between its path and its size was rewritten
C8_Witness ==
    /\ Rewrote(result)
    /\ \E i \in 1..Len(FileList(result.before)) :
          Len(RowArgs(FileList(result.before)[i])) > 1

-----------------------------------------------------------------------------
(* C9: get_info on an index whose file-list block has fewer rows than the  *)
(* number of source files it was built from fails with the corruption      *)
(* error and returns no model.  Stated for a truncated list that keeps at   *)
(* least one row; refuted by the code.                                     *)

C9_TruncatedListRaises ==
    (/\ result.op = "get_info"
     /\ result.path \in DOMAIN fs
     /\ HasFileList(fs[result.path])
     /\ Len(FileList(fs[result.path])) > 0
     /\ Len(FileList(fs[result.path])) < built[result.path])
    => result.exc = FileCorrupted

-----------------------------------------------------------------------------
(* C10: get_info and update_video_filenames fail with the corruption error *)
(* when the first line of the index file lacks the signature 'DGIndexNV';  *)
(* get_info then returns no model and update_video_filenames writes        *)
(* nothing.  Stated for files that are not empty; refuted by the code.     *)

C10_BadSignatureRaises ==
    LET content == IF result.op = "update" THEN result.before ELSE fs[ParsePath]
    IN  (/\ result.op \in {"get_info", "update"}
         /\ content # EmptyFile
         /\ ~HasSignature(content[1]))
        => /\ result.exc = FileCorrupted
           /\ result.info = NoInfo
           /\ result.writes = <<>>

-----------------------------------------------------------------------------
(* C11: in index(), when the target index file exists and is empty, or     *)
(* exists and force is set, the file is deleted and the external tool is   *)
(* invoked for that output; update_video_filenames is not called for it.   *)
(* Checked on every index call against the disk it started from.           *)

\* the outputs an index call handled: each was patched or handed to the tool
Handled(r) ==
    {r.tool[k].output : k \in 1..Len(r.tool)}
        \cup {r.patched[k].output : k \in 1..Len(r.patched)}

C11_EmptyOrForceReindexes ==
    [][result'.op = "index" =>
        \A p \in Handled(result') :
            (p \in DOMAIN fs /\ (fs[p] = EmptyFile \/ result'.force))
            => /\ p \in Elems(result'.unlinked)
               /\ \E k \in 1..Len(result'.tool) : result'.tool[k].output = p
               /\ \A k \in 1..Len(result'.patched) :
                     result'.patched[k].output # p]_vars

\* an empty index was found without force: it was deleted and the tool ran
C11_Witness ==
    /\ result.op = "index"
    /\ ~result.force
    /\ result.unlinked # <<>>
    /\ \E k \in 1..Len(result.tool) : result.tool[k].output = result.unlinked[1]
    /\ result.patched = <<>>

-----------------------------------------------------------------------------
(* C12: over index() calls whose tool runs succeed, one output path only   *)
(* takes these transitions: absent to present by a tool invocation;        *)
(* present with matching paths stays as it is, with no write; present with *)
(* differing paths is patched to the requested paths; present and empty or *)
(* forced is deleted and recreated by the tool; a path the call does not   *)
(* handle is left alone; and content that is none of these ends the call   *)
(* in the corruption error, the file untouched.  Refuted by the code.      *)

\* the files the call handled output p for
HandledFor(r, p) ==
    IF \E k \in 1..Len(r.patched) : r.patched[k].output = p
    THEN (CHOOSE c \in Elems(r.patched) : c.output = p).files
    ELSE (CHOOSE c \in Elems(r.tool) : c.output = p).files

RanTool(r, p) == \E k \in 1..Len(r.tool) : r.tool[k].output = p

\* an index with all its blocks, signed, with one row per requested file
Expected(content, files) ==
    /\ WellFormed(content)
    /\ HasSignature(ReadLines(content)[1])
    /\ Len(FileList(content)) = Len(files)

C12_OutputPathLifecycle ==
    [][result'.op = "index" =>
        \A p \in DOMAIN fs \cup DOMAIN fs' :
            IF p \notin Handled(result')
            THEN p \in DOMAIN fs /\ p \in DOMAIN fs' /\ fs'[p] = fs[p]
            ELSE LET files == HandledFor(result', p)
                     wrote == p \in Elems(result'.writes)
                 IN  IF p \notin DOMAIN fs
                     THEN /\ RanTool(result', p)
                          /\ p \in DOMAIN fs'
                     ELSE IF fs[p] = EmptyFile \/ result'.force
                     THEN /\ p \in Elems(result'.unlinked)
                          /\ RanTool(result', p)
                          /\ p \in DOMAIN fs'
                     ELSE IF ~Expected(fs[p], files)
                     THEN /\ result'.exc = FileCorrupted
                          /\ fs'[p] = fs[p]
                     ELSE IF RecordedPaths(fs[p]) = StrFilepaths(files)
                     THEN ~wrote /\ fs'[p] = fs[p]
                     ELSE /\ wrote
                          /\ ~RanTool(result', p)
                          /\ RecordedPaths(fs'[p]) = StrFilepaths(files)]_vars

-----------------------------------------------------------------------------
(* C13: when index() finds an existing non-empty index and patching it     *)
(* fails on a bad signature or a row-count mismatch, index() absorbs the   *)
(* failure and re-runs the external tool for that output: the call ends    *)
(* without an error and the tool was invoked for the output.  Refuted by   *)
(* the code.                                                               *)

\* content on which update_video_filenames fails for these files
PatchFails(content, files) ==
    /\ content # EmptyFile
    /\ \/ ~HasSignature(ReadLines(content)[1])
       \/ HasFileList(content) /\ Len(FileList(content)) # Len(files)

C13_PatchFailureFallsBack ==
    [][result'.op = "index" =>
        \A k \in 1..Len(result'.patched) :
            LET call == result'.patched[k]
            IN  PatchFails(fs[call.output], call.files)
                => /\ result'.exc = NoExc
                   /\ RanTool(result', call.output)]_vars

-----------------------------------------------------------------------------
(* C14: once get_info(index_path, file_idx) has returned, every later call *)
(* with the same pair returns the cached value without opening the file,   *)
(* however many other pairs were parsed in between.  Refuted by the code:  *)
(* the cache holds a bounded number of entries.                            *)

C14_CachedForever ==
    [][(/\ seen.set
        /\ result'.op = "get_info"
        /\ <<result'.path, result'.file_idx>> = seen.key)
       => (~result'.opened /\ result'.info = seen.info)]_vars

-----------------------------------------------------------------------------
(* C15: if any requested source file does not exist, the indexing request  *)
(* fails with a file-not-found condition before the external tool is       *)
(* invoked and before any index file is created, patched or deleted, also  *)
(* when the request spans several folders.                                 *)

-----------------------------------------------------------------------------
(* C16: index() partitions its input by parent directory: every file list  *)
(* handed to the external tool or to the patcher holds files of a single   *)
(* directory, and every distinct input file is handled in exactly one      *)
(* group (in at most one when the call ends in an error).                  *)

\* the file lists a call handed to the tool or to the patcher
Handed(r) ==
    {r.tool[k].files : k \in 1..Len(r.tool)}
        \cup {r.patched[k].files : k \in 1..Len(r.patched)}

C16_PartitionByFolder ==
    result.op = "index" =>
        /\ \A list \in Handed(result) :
              \A i, j \in 1..Len(list) : list[i].folder = list[j].folder
        /\ \A f \in Elems(result.files) :
              LET groups == {list \in Handed(result) : f \in Elems(list)}
              IN  /\ Cardinality(groups) <= 1
                  /\ result.exc = NoExc => Cardinality(groups) = 1
        /\ Len(result.tool) + Len(result.patched) = Cardinality(Handed(result))

\* a request over two folders went through: one list per folder
C16_Witness ==
    /\ result.op = "index"
    /\ result.exc = NoExc
    /\ ~result.split_files
    /\ Cardinality({result.files[i].folder : i \in 1..Len(result.files)}) = 2
    /\ Cardinality(Handed(result)) = 2

-----------------------------------------------------------------------------
(* C17: index() returns exactly one output path per directory group when   *)
(* split_files is false, and exactly one per (distinct) input file when    *)
(* split_files is true.                                                    *)

C17_OnePathPerGroupOrFile ==
    (result.op = "index" /\ result.exc = NoExc) =>
        Len(result.ret) =
            IF result.split_files
            THEN Cardinality(Elems(result.files))
            ELSE Cardinality({result.files[i].folder : i \in 1..Len(result.files)})

\* two files of one folder indexed apart: two paths returned
C17_Witness ==
    /\ result.op = "index"
    /\ result.exc = NoExc
    /\ result.split_files
    /\ Cardinality(Elems(result.files)) = 2
    /\ Len(result.ret) = 2

-----------------------------------------------------------------------------
(* C18: the form of the output filenames of index().                       *)

\* the paths an index() call produced: returned, written by the tool, or
\* handed to the patcher
Produced(r) ==
    Elems(r.ret) \cup {r.tool[k].output : k \in 1..Len(r.tool)}
        \cup {r.patched[k].output : k \in 1..Len(r.patched)}

\* the sorted distinct files of one folder of a request
Group(r, folder) == SortedSet(SelectSeq(r.files, LAMBDA f : f.folder = folder))

RequestFolders(r) == {r.files[i].folder : i \in 1..Len(r.files)}

\* the names the code gives: in split mode each file's own stem leads the
\* name and is its tag; otherwise the first file of the sorted group leads
NamesOf(r) ==
    UNION {IF r.split_files
           THEN {[folder |-> g,
                  name |-> <<Group(r, g)[i].stem, GetVideosHash(Group(r, g)),
                             Group(r, g)[i].stem, "DGIndexNV">>] :
                    i \in 1..Len(Group(r, g))}
           ELSE {[folder |-> g,
                  name |-> <<Group(r, g)[1].stem, GetVideosHash(Group(r, g)),
                             IF Len(Group(r, g)) > 1 THEN "JOINED" ELSE "SINGLE",
                             "DGIndexNV">>]} :
           g \in RequestFolders(r)}

\* C18 (as amended): every output filename of index() is
\* stem + '_' + identity hash + '_' + tag + '_' + tool name; with
\* split_files false the stem is that of the first file of the sorted
\* group and the tag is JOINED or SINGLE; with split_files true the stem is
\* the individual file's own and the tag is that same stem (the file's name
\* without its suffix).
C18_NameForm ==
    result.op = "index" =>
        /\ Produced(result) \subseteq NamesOf(result)
        /\ result.exc = NoExc => Elems(result.ret) = NamesOf(result)

\* two files of one folder indexed apart, each under its own stem
C18_Witness ==
    /\ result.op = "index"
    /\ result.exc = NoExc
    /\ result.split_files
    /\ Len(result.ret) = 2
    /\ result.ret[1].folder = result.ret[2].folder
    /\ result.ret[1].name[1] # result.ret[2].name[1]

\* C18 (as stated): every output filename is stem(first file of the group)
\* + '_' + hash + '_' + tag + '_' + tool name, the tag being JOINED, SINGLE
\* or, with split_files true, the individual file's own name.
C18_FirstStemAndOwnName ==
    result.op = "index" =>
        \A p \in Produced(result) :
            \E g \in RequestFolders(result) :
                /\ p.folder = g
                /\ Len(p.name) = 4
                /\ p.name[1] = Group(result, g)[1].stem
                /\ p.name[2] = GetVideosHash(Group(result, g))
                /\ p.name[4] = "DGIndexNV"
                /\ IF result.split_files
                   THEN \E i \in 1..Len(Group(result, g)) :
                            TagName(p.name[3]) = FileName(Group(result, g)[i])
                   ELSE p.name[3] =
                            (IF Len(Group(result, g)) > 1 THEN "JOINED" ELSE "SINGLE")

-----------------------------------------------------------------------------
(* C19: get_info fails closed: it raises, or it returns every frame record *)
(* of the text that lies in the requested file's window, also when a blank *)
(* line stands inside the frame data or a SEQ marker goes back below an    *)
(* earlier one.  Stated over the lines between the header block and the    *)
(* footer, with the window [lo, hi) of the declared sizes; refuted by the  *)
(* code.                                                                   *)

\* the lines between the header block and the blank line before the footer
FrameRegion(content) ==
    LET rest == SplitRest(SplitRest(SplitRest(SplitNL(content))))
    IN  Slice(rest, 1, Len(rest) - Len(FooterBlock) - 1)

SeqAt(region, j) == region[j] # Blank /\ region[j][1] = "SEQ"

FrameAt(region, j) == region[j] # Blank /\ region[j][1] \in FrameNames

\* the value of the last SEQ marker up to line i, 0 before the first
CursorAt(region, i) ==
    LET marks == {j \in 1..i : SeqAt(region, j)}
    IN  IF marks = {} THEN 0
        ELSE IntTok(region[CHOOSE j \in marks : \A k \in marks : k <= j][2])

C19_FailsClosed ==
    LET content == fs[ParsePath]
        region == FrameRegion(content)
        sizes == DeclaredSizes(content)
    IN  ParsedRow(result, content) =>
            \A i \in 1..Len(region) :
                (/\ FrameAt(region, i)
                 /\ WindowLo(sizes, result.file_idx) <= CursorAt(region, i)
                 /\ CursorAt(region, i) < WindowHi(sizes, result.file_idx))
                => i \in Elems(result.frame_lines)

-----------------------------------------------------------------------------
(* C20: a header line ASPECT whose denominator is 0.                       *)

\* the ASPECT lines of the header block
AspectLines(content) ==
    SelectSeq(SplitHead(SplitRest(SplitRest(SplitNL(content)))),
              LAMBDA line : line # Blank /\ line[1] = "ASPECT")

ZeroDenominator(line) == Len(line) = 3 /\ line[3] = "0"

\* the header's last ASPECT line has denominator 0
AspectByZero(content) ==
    /\ WellFormed(content)
    /\ AspectLines(content) # <<>>
    /\ ZeroDenominator(Last(AspectLines(content)))

-----------------------------------------------------------------------------
(* C21: for a source file whose declared size is 0, get_info returns an    *)
(* empty frame_data list, whatever SEQ values the frame-data block holds.  *)
(* Stated in the state after a get_info call; refuted by the code.         *)

C21_ZeroSizeEmptyWindow ==
    LET content == fs[ParsePath]
        sizes == DeclaredSizes(content)
    IN  (/\ ParsedRow(result, content)
         /\ sizes[result.file_idx + 1] = 0)
        => result.info.frame_data = <<>>

-----------------------------------------------------------------------------
(* C22: the footer lines of an index file and the footer of the model.     *)

\* the last four lines of the text: its footer block
FooterOf(content) == Slice(content, Len(content) - 3, Len(content))

\* get_info returned a model for the text
Parsed(r) == r.op = "get_info" /\ r.exc = NoExc

\* C22 (as amended): among the final lines, the lines FILM <pct>% (or
\* <pct>% FILM), CODED <n>, PLAYBACK <n> and ORDER <n>, in any order, set
\* the footer fields film, frames_coded, frames_playback and order; a line
\* that names frames_coded or frames_playback in full (FRAMES_CODED <n>,
\* FRAMES_PLAYBACK <n>) sets nothing and the field keeps its default 0.
C22_FooterByLastWord ==
    LET footer == FooterOf(fs[ParsePath])
        f == result.info.footer
    IN  Parsed(result) =>
            \A i \in 1..Len(footer) :
                LET line == footer[i]
                IN  /\ line[1] = "FILM" => f.film = PctVal(line[2])
                    /\ line[2] = "FILM" => f.film = PctVal(line[1])
                    /\ line[1] = "CODED" => f.frames_coded = IntTok(line[2])
                    /\ line[1] = "PLAYBACK" => f.frames_playback = IntTok(line[2])
                    /\ line[1] = "ORDER" => f.order = IntTok(line[2])
                    /\ line[1] = "FRAMES_CODED" => f.frames_coded = 0
                    /\ line[1] = "FRAMES_PLAYBACK" => f.frames_playback = 0

\* a footer read with ORDER first and CODED last, each setting its field
C22_Witness ==
    LET footer == FooterOf(fs[ParsePath])
    IN  /\ Parsed(result)
        /\ footer[1][1] = "ORDER"
        /\ footer[4][1] = "CODED"
        /\ result.info.footer.order = IntTok(footer[1][2])
        /\ result.info.footer.frames_coded = IntTok(footer[4][2])
        /\ result.info.footer.order # result.info.footer.frames_coded

\* C22 (as stated): the lines FILM <pct>%, FRAMES_CODED <n>,
\* FRAMES_PLAYBACK <n> and ORDER <n> set film, frames_coded,
\* frames_playback and order to <pct>, <n>, <n> and <n>.
C22_FooterByFullName ==
    LET footer == FooterOf(fs[ParsePath])
        f == result.info.footer
    IN  Parsed(result) =>
            \A i \in 1..Len(footer) :
                LET line == footer[i]
                IN  /\ line[1] = "FILM" => f.film = PctVal(line[2])
                    /\ line[1] = "FRAMES_CODED" => f.frames_coded = IntTok(line[2])
                    /\ line[1] = "FRAMES_PLAYBACK" => f.frames_playback = IntTok(line[2])
                    /\ line[1] = "ORDER" => f.order = IntTok(line[2])

-----------------------------------------------------------------------------
(* C23: the extra command-line arguments passed to index() are forwarded   *)
(* to every external tool invocation the call makes, also to those made    *)
(* for each directory group of an input that spans several directories.    *)
(* Checked on every index call; refuted by the code.                       *)

C23_CmdArgsForwarded ==
    [][\A cmd_args \in SomeArgs :
        (\E files \in BoundedSeq(Files, MaxInput), force \in BOOLEAN,
            split_files \in BOOLEAN :
            \E unique_folders \in Orders(Folders(files)),
               failAt \in 0..MaxRuns(files, split_files) :
               Index(files, force, split_files, cmd_args, unique_folders, failAt))
        => \A k \in 1..Len(result'.tool) : result'.tool[k].cmd_args = cmd_args]_vars

-----------------------------------------------------------------------------
(* C24: with split_files true, distinct input files of one directory map   *)
(* to pairwise distinct output paths, so that no file's index is patched   *)
(* or overwritten by the indexing of another file of the same call, also   *)
(* for two files that share a stem and differ in their suffix.  Stated in  *)
(* the state after an index call; refuted by the code.                     *)

\* the tool runs and the patches of a call
Handlings(r) ==
    {r.tool[k] : k \in 1..Len(r.tool)} \cup {r.patched[k] : k \in 1..Len(r.patched)}

C24_SplitOutputsDistinct ==
    (result.op = "index" /\ result.split_files) =>
        /\ \A a, b \in Handlings(result) :
              a.files # b.files => a.output # b.output
        /\ result.exc = NoExc =>
              \A i, j \in 1..Len(result.ret) :
                  i # j => result.ret[i] # result.ret[j]

-----------------------------------------------------------------------------
(* C25: across any interleaving of index() calls (also with force set,     *)
(* which deletes and recreates the file) and get_info calls, the model     *)
(* get_info returns equals what a fresh parse of the index file now on     *)
(* disk returns.  Checked on every get_info call; refuted by the code.     *)

C25_NeverStale ==
    [][(/\ result'.op = "get_info"
        /\ result'.exc = NoExc
        /\ result'.path \in DOMAIN fs')
       => result'.info = ParseIndex(fs'[result'.path], result'.path,
                                    result'.file_idx, FALSE).info]_vars

-----------------------------------------------------------------------------
(* C26: an index() call that ends in an error leaves every index file that *)
(* existed before the call unchanged on disk; a call with force set whose  *)
(* tool invocation fails does not lose the index that was there.  Checked  *)
(* on every index call; refuted by the code.                               *)

C26_ErrorLeavesDiskAlone ==
    [][(result'.op = "index" /\ result'.exc # NoExc) =>
        \A p \in DOMAIN fs : p \in DOMAIN fs' /\ fs'[p] = fs[p]]_vars

-----------------------------------------------------------------------------
(* C27: whenever index() returns normally, every returned path is an       *)
(* existing, non-empty index file whose file-list block lists, row by row, *)
(* exactly the files that were passed for that output, in sorted order.    *)
(* Stated in the state after an index call; refuted by the code.           *)

\* the returned paths of one folder, in the order returned
RetOf(r, folder) == SelectSeq(r.ret, LAMBDA p : p.folder = folder)

\* the file at path p is there, is not empty and lists these files
Lists(p, files) ==
    /\ p \in DOMAIN fs
    /\ fs[p] # EmptyFile
    /\ HasFileList(fs[p])
    /\ RecordedPaths(fs[p]) = StrFilepaths(files)

C27_ReturnedPathsListTheirFiles ==
    (result.op = "index" /\ result.exc = NoExc) =>
        \A g \in RequestFolders(result) :
            LET grp == Group(result, g)
                out == RetOf(result, g)
            IN  IF result.split_files
                THEN /\ Len(out) = Len(grp)
                     /\ \A i \in 1..Len(out) : Lists(out[i], <<grp[i]>>)
                ELSE /\ Len(out) = 1
                     /\ Lists(out[1], grp)

-----------------------------------------------------------------------------
(* C28: for input files spanning several directories the list index()      *)
(* returns is a function of the input list: two calls with the same files  *)
(* in the same order, against the same disk, return the output paths in    *)
(* the same order.  Checked on every index call that follows a call with   *)
(* the same arguments which left the disk as it found it; refuted by the   *)
(* code.                                                                   *)

\* the call before left the disk alone: it ran no tool, wrote and deleted
\* nothing
LeftDiskAlone(r) ==
    /\ r.op = "index"
    /\ r.exc = NoExc
    /\ r.tool = <<>>
    /\ r.writes = <<>>
    /\ r.unlinked = <<>>

C28_ReturnOrderDeterministic ==
    [][(/\ LeftDiskAlone(result)
        /\ result'.op = "index"
        /\ result'.files = result.files
        /\ result'.force = result.force
        /\ result'.split_files = result.split_files)
       => result'.ret = result.ret]_vars

-----------------------------------------------------------------------------
(* C29: get_info called with the default file_idx of -1 returns the same   *)
(* frame_data as get_info called with file_idx = (number of file-list      *)
(* rows) - 1: the frame records in the window of the last listed source.   *)
(* Stated in the state after a get_info call; refuted by the code.         *)

C29_DefaultIsLastFile ==
    LET content == fs[ParsePath]
        last == Len(FileList(content)) - 1
    IN  (/\ Parsed(result)
         /\ WellFormed(content)
         /\ result.file_idx = -1)
        => result.info.frame_data =
              ParseIndex(content, ParsePath, last, FALSE).info.frame_data

-----------------------------------------------------------------------------
(* C30: duplicate entries of the input to index() are collapsed before     *)
(* hashing and indexing: each distinct file appears at most once in any    *)
(* tool command line, patch request and hashed list, and an input naming   *)
(* one file several times is indexed under the SINGLE tag, not JOINED.     *)

NoRepeat(seq) == \A i, j \in 1..Len(seq) : seq[i] = seq[j] => i = j

C30_DuplicatesCollapsed ==
    result.op = "index" =>
        /\ \A h \in Handlings(result) : NoRepeat(h.files)
        /\ \A k \in 1..Len(result.hash) : NoRepeat(result.hash[k])
        /\ (Cardinality(Elems(result.files)) = 1 /\ ~result.split_files)
              => \A p \in Produced(result) : p.name[3] = "SINGLE"

\* one file named twice went to the tool once, under the SINGLE tag
C30_Witness ==
    /\ result.op = "index"
    /\ result.exc = NoExc
    /\ ~result.split_files
    /\ Len(result.files) = 2
    /\ result.files[1] = result.files[2]
    /\ Len(result.tool) = 1
    /\ result.tool[1].files = <<result.files[1]>>
    /\ result.ret[1].name[3] = "SINGLE"

====
